---- MODULE Spec2Model ----
(***************************************************************************)
(* GrooveBot: audio feature extractor (AudioService), sequencer state of   *)
(* App / ControlPanel, and the spring-damper joint solver of Robot.        *)
(*                                                                         *)
(* Real numbers are fixed point: normalized features, angles, velocities   *)
(* and stiffness carry FS = 1000 units per 1.0, times are in milliseconds, *)
(* pitch is in tenths of a hertz.  Divisions round toward minus infinity.  *)
(***************************************************************************)
EXTENDS Integers, Sequences, FiniteSets, TLC

\* ------------------------------------------------------------------------
\* Fixed-point helpers
\* ------------------------------------------------------------------------
FS == 10 * 100

Min(a, b) == IF a < b THEN a ELSE b
Max(a, b) == IF a > b THEN a ELSE b

\* floor(a * b / c) for c > 0 without forming a * b
MulDiv(a, b, c) == (a \div c) * b + ((a % c) * b) \div c

RECURSIVE SqrtSearch(_, _, _)
SqrtSearch(n, lo, hi) ==
  IF hi - lo <= 1 THEN lo
  ELSE LET m == (lo + hi) \div 2
       IN  IF m * m <= n THEN SqrtSearch(n, m, hi) ELSE SqrtSearch(n, lo, m)

\* floor(sqrt(n)) for 0 <= n < 2^30
ISqrt(n) == SqrtSearch(n, 0, 32768)

\* sum of f[i] for lo <= i < hi
RECURSIVE SumRange(_, _, _)
SumRange(f, lo, hi) ==
  IF hi <= lo THEN 0
  ELSE IF hi = lo + 1 THEN f[lo]
  ELSE LET m == (lo + hi) \div 2
       IN  SumRange(f, lo, m) + SumRange(f, m, hi)

\* ------------------------------------------------------------------------
\* AudioService
\* ------------------------------------------------------------------------
fftSize == 2048
bufferLength == fftSize \div 2
sampleRate == 44100
nyquist == sampleRate \div 2
beatDecay == 98
beatMinInterval == 300
BeatFloor == 350
BeatSpike == 1000
BeatInitial == 600
PitchFloor == 100
ChromaGate == 50
FluxNorm == 100
ByteMax == 255
TimeCentre == 128

Bins == 0 .. (bufferLength - 1)

ZeroSpectrum == [i \in Bins |-> 0]
ZeroChroma == [c \in 0 .. 11 |-> 0]

getEmptyFeatures ==
  [bass |-> 0, mid |-> 0, treble |-> 0, energy |-> 0, rms |-> 0,
   spectralCentroid |-> 0, spectralFlux |-> 0, pitch |-> 0,
   isBeat |-> FALSE, chroma |-> ZeroChroma]

\* getAvg(start, end) / 255
getAvg(data, start, end) ==
  (SumRange(data, start, end) * FS) \div ((end - start) * ByteMax)

RmsUncentred(tdata) ==
  LET sq == [i \in Bins |-> tdata[i] * tdata[i]]
      meanSq == MulDiv(SumRange(sq, 0, bufferLength), 10000, bufferLength)
  IN  (ISqrt(meanSq) * 10) \div TimeCentre

\* sqrt(sum(((t - 128) / 128)^2) / bufferLength)
Rms(tdata) ==
  LET sq == [i \in Bins |-> (tdata[i] - TimeCentre) * (tdata[i] - TimeCentre)]
      meanSq == MulDiv(SumRange(sq, 0, bufferLength), 10000, bufferLength)
  IN  (ISqrt(meanSq) * 10) \div TimeCentre

\* (numerator / denominator) / bufferLength, 0 when the denominator is 0
SpectralCentroid(data) ==
  LET weighted == [i \in Bins |-> i * data[i]]
      numerator == SumRange(weighted, 0, bufferLength)
      denominator == SumRange(data, 0, bufferLength)
  IN  IF denominator = 0 THEN 0
      ELSE MulDiv(numerator, FS, denominator) \div bufferLength

\* sum of the positive per-bin differences to the stored spectrum, in 1/255.
\* The stored Float32 value of b/255 is never below b/255 (the binary
\* expansion of b/255 has period 8, so rounding to 24 bits rounds up), hence
\* a bin whose byte did not rise contributes nothing.
FluxSum(data, prev) ==
  LET diff == [i \in Bins |-> IF data[i] - prev[i] > 0 THEN data[i] - prev[i] ELSE 0]
  IN  SumRange(diff, 0, bufferLength)

SpectralFluxUnclamped(data, prev) ==
  (FluxSum(data, prev) * FS) \div (ByteMax * FluxNorm)

\* variant that reads the stored spectrum after it was overwritten with the
\* current one
SpectralFluxAfterStore(data, prev) ==
  Min(FS, (FluxSum(data, data) * FS) \div (ByteMax * FluxNorm))

\* Math.min(1, fluxSum / 100)
SpectralFlux(data, prev) ==
  Min(FS, (FluxSum(data, prev) * FS) \div (ByteMax * FluxNorm))

\* index of the first maximum over bins 1 .. bufferLength-1 (0 if all are 0)
RECURSIVE MaxBin(_, _, _)
MaxBin(data, lo, hi) ==
  IF hi = lo + 1 THEN lo
  ELSE LET m == (lo + hi) \div 2
           l == MaxBin(data, lo, m)
           r == MaxBin(data, m, hi)
       IN  IF data[r] > data[l] THEN r ELSE l

maxIndexOf(data) ==
  LET k == MaxBin(data, 1, bufferLength)
  IN  IF data[k] > 0 THEN k ELSE 0

maxValOf(data) == IF maxIndexOf(data) = 0 THEN 0 ELSE data[maxIndexOf(data)]

\* (index / bufferLength) * nyquist, in tenths of a hertz
BinPitch(i) == (i * nyquist * 10) \div bufferLength

Pitch(data) ==
  IF maxValOf(data) > PitchFloor THEN BinPitch(maxIndexOf(data)) ELSE 0

\* Semitone boundaries 440 * 2^((k - 0.5) / 12) of the octave of A4, in
\* hundredths of a hertz: Math.round(midi) = 69 + k inside that octave.
SemitoneBounds ==
  <<42747, 45289, 47982, 50836, 53858, 57061, 60454, 64049, 67857, 71892,
    76167, 80696, 85495>>

RECURSIVE FoldUp(_)
FoldUp(f) == IF f < SemitoneBounds[1] THEN FoldUp(2 * f) ELSE f

RECURSIVE OctaveScale(_, _)
OctaveScale(f, m) == IF f >= SemitoneBounds[13] * m THEN OctaveScale(f, 2 * m) ELSE m

\* ((Math.round(69 + 12 * log2(freq / 440)) % 12) + 12) % 12 for bin i >= 1
PitchClass(i) ==
  LET f == FoldUp(MulDiv(i * nyquist, 100, bufferLength))
      m == OctaveScale(f, 1)
      k == CHOOSE j \in 1 .. 12 :
             /\ f >= SemitoneBounds[j] * m
             /\ f < SemitoneBounds[j + 1] * m
  IN  (69 + (k - 1)) % 12

PitchClassOf == [i \in 1 .. (bufferLength - 1) |-> PitchClass(i)]

\* chroma[idx] += dataArray[i] / 255 over the bins that pass the noise gate
ChromaSlots(data) ==
  [c \in 0 .. 11 |->
     LET part == [i \in Bins |->
                    IF i >= 1 /\ data[i] >= ChromaGate /\ PitchClassOf[i] = c
                    THEN data[i] ELSE 0]
     IN  SumRange(part, 1, bufferLength)]

SlotMax(slots) == CHOOSE v \in {slots[c] : c \in 0 .. 11} :
                    \A c \in 0 .. 11 : slots[c] <= v

\* chroma[c] /= Math.max(...chroma, 0.001)
NormalizeChroma(slots) ==
  LET top == SlotMax(slots)
  IN  [c \in 0 .. 11 |->
         IF top * 1000 > ByteMax THEN (slots[c] * FS) \div top
         ELSE (slots[c] * FS * 1000) \div ByteMax]

\* variant that fills the chroma whether or not a pitch was found
ChromaAlways(data) == NormalizeChroma(ChromaSlots(data))

Chroma(data) ==
  IF Pitch(data) > 0 THEN NormalizeChroma(ChromaSlots(data)) ELSE ZeroChroma

BeatConditionInclusive(bass, threshold, clock, last) ==
  bass > threshold /\ clock - last >= beatMinInterval

\* variant that fires as soon as the minimum interval has passed, whatever
\* the bass of the call
BeatConditionAnyBass(bass, threshold, clock, last) ==
  clock - last > beatMinInterval

\* bass > beatThreshold && now - lastBeatTime > beatMinInterval
BeatCondition(bass, threshold, clock, last) ==
  bass > threshold /\ clock - last > beatMinInterval

\* variant of the decay without the floor
DecayThresholdNoFloor(threshold) == (threshold * beatDecay) \div 100

\* beatThreshold *= beatDecay, floored at 0.35
DecayThreshold(threshold) ==
  LET t == (threshold * beatDecay) \div 100
  IN  IF t < BeatFloor THEN BeatFloor ELSE t

\* ------------------------------------------------------------------------
\* types.ts: poses and motion mapping
\* ------------------------------------------------------------------------
\* a value that may be null: <<>> for null, <<v>> for the value v
Null == <<>>
Some(v) == <<v>>

PoseJoints == {"head", "spine", "lArm", "rArm", "lLeg", "rLeg"}

DEFAULT_POSE ==
  [head |-> <<0, 0, 0>>, spine |-> <<0, 0, 0>>,
   lArm |-> <<0, 0, 300>>, rArm |-> <<0, 0, -300>>,
   lLeg |-> <<0, 0, 0>>, rLeg |-> <<0, 0, 0>>]

DEFAULT_MAPPING ==
  [bounce |-> "bass", spineTwist |-> "mid", armWiggle |-> "energy",
   headNod |-> "spectralFlux", scale |-> "energy",
   colorShift |-> "spectralCentroid", legKick |-> "bass", elbowFlex |-> "treble"]

\* ------------------------------------------------------------------------
\* Robot: joint limits, physics state, solveJoint, useFrame
\* ------------------------------------------------------------------------
Joints ==
  {"hips", "spine", "head", "lArm", "rArm", "lForeArm", "rForeArm",
   "lLeg", "rLeg", "lShin", "rShin"}

\* per axis <<min, max>>, in 1/1000 rad
JOINT_LIMITS ==
  [spine    |-> << <<-300, 400>>, <<-800, 800>>, <<-300, 300>> >>,
   head     |-> << <<-600, 600>>, <<-1200, 1200>>, <<-500, 500>> >>,
   lArm     |-> << <<-1000, 3000>>, <<-1500, 1000>>, <<-500, 2500>> >>,
   rArm     |-> << <<-1000, 3000>>, <<-1000, 1500>>, <<-2500, 500>> >>,
   lForeArm |-> << <<0, 0>>, <<0, 0>>, <<0, 2600>> >>,
   rForeArm |-> << <<0, 0>>, <<0, 0>>, <<-2600, 0>> >>,
   lLeg     |-> << <<-1200, 800>>, <<-500, 500>>, <<-500, 500>> >>,
   rLeg     |-> << <<-1200, 800>>, <<-500, 500>>, <<-500, 500>> >>,
   lShin    |-> << <<0, 2000>>, <<0, 0>>, <<0, 0>> >>,
   rShin    |-> << <<0, 2000>>, <<0, 0>>, <<0, 0>> >>]

\* JOINT_LIMITS[jointName] || { x: [-10,10], y: [-10,10], z: [-10,10] }
LimitsOf(jointName) ==
  IF jointName \in DOMAIN JOINT_LIMITS THEN JOINT_LIMITS[jointName]
  ELSE << <<-10000, 10000>>, <<-10000, 10000>>, <<-10000, 10000>> >>

InitialPhysics ==
  [j \in Joints |-> [rotation |-> <<0, 0, 0>>, velocity |-> <<0, 0, 0>>]]

defaultMoves ==
  << [head |-> <<0, 0, 0>>, spine |-> <<100, 0, 0>>,
      lArm |-> <<0, 0, 300>>, rArm |-> <<0, 0, -300>>,
      lLeg |-> <<0, 0, 0>>, rLeg |-> <<0, 0, 0>>],
     [head |-> <<-200, 0, 0>>, spine |-> <<-100, 0, 0>>,
      lArm |-> <<0, 0, 2500>>, rArm |-> <<0, 0, -2500>>,
      lLeg |-> <<-200, 0, 0>>, rLeg |-> <<-200, 0, 0>>],
     [head |-> <<0, 0, 0>>, spine |-> <<0, 0, 0>>,
      lArm |-> <<0, 0, 1500>>, rArm |-> <<0, 0, -1500>>,
      lLeg |-> <<0, 0, 200>>, rLeg |-> <<0, 0, -200>>],
     [head |-> <<100, 0, 0>>, spine |-> <<200, 100, 0>>,
      lArm |-> <<500, 500, 500>>, rArm |-> <<-500, 500, -500>>,
      lLeg |-> <<-400, 0, 0>>, rLeg |-> <<400, 0, 0>>] >>

\* activeSequence.poses when a sequence with at least one pose is active
activeMoves(activeSequence) ==
  IF activeSequence # Null /\ Len(activeSequence[1].poses) > 0
  THEN activeSequence[1].poses
  ELSE defaultMoves

\* typeof features[key] === 'number' ? features[key] : 0.  Pitch is kept in
\* tenths of a hertz, so its value in units of 1/1000 is 100 times that.
getFeature(features, key) ==
  IF key = "pitch" THEN features.pitch * 100 ELSE features[key]

\* sin of an angle given in 1/100 rad, in 1/1000 (Bhaskara's rational form
\* on each half period; 314 and 628 stand for pi and 2 pi)
Sin(a) ==
  LET x == a % 628
      h == IF x >= 314 THEN x - 314 ELSE x
      p == h * (314 - h)
      v == (16 * p * FS) \div (5 * 314 * 314 - 4 * p)
  IN  IF x >= 314 THEN -v ELSE v

Cos(a) == Sin(a + 157)

Abs(v) == IF v < 0 THEN -v ELSE v

\* Math.sin(timeRef.current * k), timeRef in ms
SinT(time, k) == Sin((time * k) \div 10)
CosT(time, k) == Cos((time * k) \div 10)

\* MathUtils.mapLinear(MathUtils.clamp(pitchHz, 100, 800), 100, 800, -0.3, 0.3)
\* when pitchHz > 50, else 0
PitchTilt(pitch) ==
  IF pitch > 500
  THEN LET c == Max(1000, Min(8000, pitch))
       IN  -300 + ((c - 1000) * 600) \div 7000
  ELSE 0

\* let newPos = current + newVel * dt
Advance(current, newVel, dt) ==
  [pos |-> current + MulDiv(newVel, dt, FS), vel |-> newVel]

\* semi-implicit Euler step of one axis; dt in ms, stiffness in 1/1000
Integrate(target, current, vel, dt, stiffness, damping) ==
  Advance(current,
          vel + MulDiv(MulDiv(target - current, stiffness, FS) - vel * damping,
                       dt, FS),
          dt)

\* variants of the constraint step: one without the upper stop, one that
\* keeps the integrated velocity at a stop
ClampAxisNoUpper(min, max, moved) ==
  IF moved.pos < min THEN [pos |-> min, vel |-> 0] ELSE moved

ClampAxisKeepVel(min, max, moved) ==
  IF moved.pos < min THEN [pos |-> min, vel |-> moved.vel]
  ELSE IF moved.pos > max THEN [pos |-> max, vel |-> moved.vel]
  ELSE moved

\* constraint solving: an inelastic stop at the limit
ClampAxis(min, max, moved) ==
  IF moved.pos < min THEN [pos |-> min, vel |-> 0]
  ELSE IF moved.pos > max THEN [pos |-> max, vel |-> 0]
  ELSE moved

\* state.rotation[i] = newPos; state.velocity[i] = newVel, for the three axes
StoreAxes(physics, jointName, axis) ==
  [physics EXCEPT ![jointName] =
     [rotation |-> <<axis[1].pos, axis[2].pos, axis[3].pos>>,
      velocity |-> <<axis[1].vel, axis[2].vel, axis[3].vel>>]]

\* the clamped step of axis i of a joint
SolveAxis(state, limits, targetRot, dt, stiffness, damping, noise, i) ==
  ClampAxis(limits[i][1], limits[i][2],
            Integrate(targetRot[i] + noise[i], state.rotation[i],
                      state.velocity[i], dt, stiffness, damping))

\* variant of solveJoint that answers an unknown joint name with a fresh
\* physics state
solveJointOrReset(physics, jointName, targetRot, dt, stiffness, damping, noise) ==
  IF jointName \notin DOMAIN physics
  THEN [j \in DOMAIN physics |-> [rotation |-> <<0, 0, 0>>, velocity |-> <<0, 0, 0>>]]
  ELSE StoreAxes(physics, jointName,
                 << SolveAxis(physics[jointName], LimitsOf(jointName), targetRot,
                              dt, stiffness, damping, noise, 1),
                    SolveAxis(physics[jointName], LimitsOf(jointName), targetRot,
                              dt, stiffness, damping, noise, 2),
                    SolveAxis(physics[jointName], LimitsOf(jointName), targetRot,
                              dt, stiffness, damping, noise, 3) >>)

solveJoint(physics, jointName, targetRot, dt, stiffness, damping, noise) ==
  IF jointName \notin DOMAIN physics THEN physics
  ELSE StoreAxes(physics, jointName,
                 << SolveAxis(physics[jointName], LimitsOf(jointName), targetRot,
                              dt, stiffness, damping, noise, 1),
                    SolveAxis(physics[jointName], LimitsOf(jointName), targetRot,
                              dt, stiffness, damping, noise, 2),
                    SolveAxis(physics[jointName], LimitsOf(jointName), targetRot,
                              dt, stiffness, damping, noise, 3) >>)

\* const dt = Math.min(delta, 0.1)
ClampDt(delta) == Min(delta, 100)

\* variants of the cursor update: one that advances on every frame outside
\* editing, one that applies the random policy to a sequence as well
NextMoveIndexEveryFrame(index, features, editorPose, activeSequence, coin, pick) ==
  IF editorPose # Null THEN index
  ELSE (index + 1) % Len(activeMoves(activeSequence))

NextMoveIndexRandom(index, features, editorPose, activeSequence, coin, pick) ==
  IF editorPose # Null THEN index
  ELSE IF features.isBeat
       THEN IF features.energy > 600 /\ coin THEN 1 ELSE pick
       ELSE index

\* variant of the procedural policy that forces index 1 on the coin alone
NextMoveIndexForced(index, features, editorPose, activeSequence, coin, pick) ==
  IF editorPose # Null THEN index
  ELSE IF features.isBeat
       THEN IF activeSequence = Null
            THEN IF coin THEN 1 ELSE pick
            ELSE (index + 1) % Len(activeMoves(activeSequence))
       ELSE index

\* 1. mode selection: the cursor after the beat handling
NextMoveIndex(index, features, editorPose, activeSequence, coin, pick) ==
  IF editorPose # Null THEN index
  ELSE IF features.isBeat
       THEN IF activeSequence = Null
            THEN IF features.energy > 600 /\ coin THEN 1
                 ELSE pick
            ELSE (index + 1) % Len(activeMoves(activeSequence))
       ELSE index

\* variant of the pose selection that prefers an active sequence
SelectPoseSequenceFirst(index, editorPose, activeSequence) ==
  IF activeSequence # Null
  THEN LET moves == activeMoves(activeSequence)
       IN  IF index + 1 \in DOMAIN moves THEN moves[index + 1] ELSE DEFAULT_POSE
  ELSE IF editorPose # Null THEN editorPose[1]
  ELSE IF index + 1 \in DOMAIN defaultMoves THEN defaultMoves[index + 1]
  ELSE DEFAULT_POSE

\* the pose handed to the solver
SelectPose(index, editorPose, activeSequence) ==
  IF editorPose # Null THEN editorPose[1]
  ELSE LET moves == activeMoves(activeSequence)
       IN  IF index + 1 \in DOMAIN moves THEN moves[index + 1] ELSE DEFAULT_POSE

\* 2. and 3.: the eleven solveJoint calls of one frame, in order
JointCalls(time, dt, features, mapping, editorPose, userDamping, targetPose) ==
  LET isEditing == editorPose # Null
      stiffness == IF isEditing THEN 150 * FS ELSE 40 * FS + features.energy * 20
      damping == IF isEditing THEN 20 ELSE userDamping
      bounceVal == IF isEditing THEN 0 ELSE getFeature(features, mapping.bounce)
      twistVal == IF isEditing THEN 0 ELSE getFeature(features, mapping.spineTwist)
      nodVal == IF isEditing THEN 0 ELSE getFeature(features, mapping.headNod)
      wiggleVal == IF isEditing THEN 0 ELSE getFeature(features, mapping.armWiggle)
      bass == IF isEditing THEN 0 ELSE getFeature(features, "bass")
      pitchTilt == PitchTilt(features.pitch)
      armWiggle == MulDiv(SinT(time, 12), wiggleVal, FS)
      flex == (Abs(SinT(time, 1)) * 15) \div 10 + wiggleVal
      legSwing == MulDiv(MulDiv(SinT(time, 10), bass, FS), 2, 10)
      kneeBend == IF isEditing THEN 0 ELSE IF features.isBeat THEN 1000 ELSE 100
      call(n, t, k, d, z) ==
        [name |-> n, target |-> t, stiffness |-> k, damping |-> d, noise |-> z]
  IN  << call("hips", <<bounceVal \div 2, 0, 0>>, stiffness \div 2, damping,
              <<SinT(time, 10) \div 10, 0, 0>>),
         call("spine", targetPose.spine, stiffness, damping,
              <<MulDiv(MulDiv(SinT(time, 5), twistVal, FS), 2, 10),
                MulDiv(MulDiv(CosT(time, 3), twistVal, FS), 3, 10), 0>>),
         call("head", targetPose.head, stiffness, damping,
              <<nodVal \div 2, MulDiv(SinT(time, 8), nodVal, FS) \div 10,
                IF isEditing THEN 0 ELSE pitchTilt>>),
         call("lArm", targetPose.lArm, stiffness, damping,
              <<0, 0, MulDiv(armWiggle, 3, 10)>>),
         call("rArm", targetPose.rArm, stiffness, damping,
              <<0, 0, MulDiv(-armWiggle, 3, 10)>>),
         call("lForeArm", IF isEditing THEN <<0, 0, 0>> ELSE <<0, 0, flex>>,
              (stiffness * 8) \div 10, damping, <<0, 0, 0>>),
         call("rForeArm", IF isEditing THEN <<0, 0, 0>> ELSE <<0, 0, -flex>>,
              (stiffness * 8) \div 10, damping, <<0, 0, 0>>),
         call("lLeg", targetPose.lLeg, stiffness, damping, <<legSwing, 0, 0>>),
         call("rLeg", targetPose.rLeg, stiffness, damping, <<-legSwing, 0, 0>>),
         call("lShin", <<kneeBend, 0, 0>>, stiffness \div 2, damping * 2, <<0, 0, 0>>),
         call("rShin", <<kneeBend, 0, 0>>, stiffness \div 2, damping * 2, <<0, 0, 0>>) >>

RECURSIVE RunCalls(_, _, _, _)
RunCalls(physics, calls, n, dt) ==
  IF n > Len(calls) THEN physics
  ELSE LET c == calls[n]
       IN  RunCalls(solveJoint(physics, c.name, c.target, dt, c.stiffness,
                               c.damping, c.noise),
                    calls, n + 1, dt)

\* one invocation of the useFrame callback
UseFrame(physics, time, index, features, mapping, editorPose, activeSequence, userDamping, delta, coin, pick) ==
  LET newTime == time + delta
      dt == ClampDt(delta)
      newIndex == NextMoveIndex(index, features, editorPose, activeSequence, coin, pick)
      pose == SelectPose(newIndex, editorPose, activeSequence)
      calls == JointCalls(newTime, dt, features, mapping, editorPose, userDamping, pose)
  IN  [physics |-> RunCalls(physics, calls, 1, dt),
       time |-> newTime,
       moveIndex |-> newIndex,
       targetPose |-> pose,
       calls |-> calls,
       dt |-> dt]

\* ------------------------------------------------------------------------
\* Inputs of the analyser: byte spectra and byte time-domain buffers
\* ------------------------------------------------------------------------
\* The byte buffers the analyser delivers are drawn from the samples below; a
\* buffer field of the service holds the name of its content ("null" while
\* the field is null), and SpectrumBytes / TimeBytes give the bytes.
SpectrumNames == {"silent", "full", "bass", "tone", "floor"}
TimeNames == {"zero", "centred", "square"}

SpectrumBytes(name) ==
  CASE name = "silent" -> ZeroSpectrum
    [] name = "full" -> [i \in Bins |-> ByteMax]
    [] name = "bass" -> [i \in Bins |-> IF i >= 1 /\ i < 12 THEN 200 ELSE 0]
    \* bin 20 is the bin nearest 440 Hz at 44.1 kHz and 1024 bins
    [] name = "tone" -> [i \in Bins |-> IF i = 20 THEN 180
                                         ELSE IF i = 40 THEN 60 ELSE 10]
    [] name = "floor" -> [i \in Bins |-> IF i % 2 = 0 THEN PitchFloor ELSE 40]

TimeBytes(name) ==
  CASE name = "zero" -> [i \in Bins |-> 0]
    [] name = "centred" -> [i \in Bins |-> TimeCentre]
    [] name = "square" -> [i \in Bins |-> IF i % 2 = 0 THEN ByteMax ELSE 64]

\* what one read of the analyser can deliver: (frequency bytes, time bytes)
Frames ==
  {<<"silent", "centred">>, <<"silent", "zero">>, <<"full", "square">>,
   <<"bass", "centred">>, <<"tone", "square">>, <<"floor", "zero">>}

MaxCalls == 3
MaxNow == 700
ClockSteps == {0, beatMinInterval, beatMinInterval + 1}

\* The parts of a frame that depend on the buffers only, evaluated once per
\* buffer: bands, centroid, pitch and chroma of a spectrum, rms of a time
\* buffer, flux of a spectrum against a stored one.
SpectrumFeatures ==
  [name \in SpectrumNames |->
     LET d == SpectrumBytes(name)
     IN  [bass |-> getAvg(d, 1, 12),
          mid |-> getAvg(d, 12, 185),
          treble |-> getAvg(d, 185, 1024),
          spectralCentroid |-> SpectralCentroid(d),
          pitch |-> Pitch(d),
          chroma |-> Chroma(d)]]

TimeFeatures == [name \in TimeNames |-> Rms(TimeBytes(name))]

FluxFeatures ==
  [name \in SpectrumNames, prev \in SpectrumNames |->
     SpectralFlux(SpectrumBytes(name), SpectrumBytes(prev))]

\* the frame getFeatures returns for the buffers read from the analyser
Analyse(data, tdata, prev, threshold, clock, last) ==
  LET sf == SpectrumFeatures[data]
  IN  [bass |-> sf.bass, mid |-> sf.mid, treble |-> sf.treble,
       energy |-> (sf.bass + sf.mid + sf.treble) \div 3,
       rms |-> TimeFeatures[tdata],
       spectralCentroid |-> sf.spectralCentroid,
       spectralFlux |-> FluxFeatures[data, prev],
       pitch |-> sf.pitch,
       isBeat |-> BeatCondition(sf.bass, threshold, clock, last),
       chroma |-> sf.chroma]

\* decimal digits of n >= 0: Number.prototype.toString
RECURSIVE toString(_)
toString(n) == IF n < 10 THEN <<n>> ELSE Append(toString(n \div 10), n % 10)

\* frames getFeatures returns for some of the buffers above
QuietFrame == Analyse("tone", "square", "silent", BeatInitial, 0, 0)
BeatFrame == Analyse("full", "square", "silent", BeatInitial,
                     beatMinInterval + 1, 0)
FeatureSamples == {getEmptyFeatures, QuietFrame, BeatFrame}

\* slider positions (min -3.14, max 3.14) and the joints and axes edited
SliderValues == {0, 3140}
SliderAxes == {0}
Names == {"My Cool Dance", "Test"}
DateReadings == {1000, 1001}

\* editor poses the sliders can produce, and a catalog saved from them
HighPose == [j \in PoseJoints |-> <<3140, 3140, 3140>>]
LowPose == [j \in PoseJoints |-> <<-3140, -3140, -3140>>]
\* the default pose after updatePose(0, 3.14) on the left arm
ArmPose == [DEFAULT_POSE EXCEPT !.lArm = <<3140, 0, 300>>]
SavedCatalog ==
  << [id |-> toString(1000), name |-> "My Cool Dance",
      poses |-> <<ArmPose, LowPose>>] >>

FrameDeltas == {16, 5000}
MaxTicks == 2
MaxAdds == 2

VARIABLES
  \* AudioService
  analyser, dataArray, timeArray, previousSpectrum, lastBeatTime,
  beatThreshold,
  \* App
  sourceType, features, mapping, damping, customSequences, activeSequenceId,
  editorPose,
  \* ControlPanel
  showConfig, activeTab, ctlEditorPose, sequenceFrames, sequenceName,
  selectedJoint,
  \* Robot
  physicsState, timeRef, moveIndex,
  \* environment and observation: the clock and the number of getFeatures
  \* calls, the last frame returned, the clock readings of the beats and the
  \* buffers read by the call before the last; the
  \* number of useFrame calls, the inputs, target pose and unclamped result
  \* of the last one; the number of addFrame calls, the last handler run and
  \* what it made visible to its caller
  now, calls, ret, beatLog, earlier, ticks, frame, targetPose, moved, adds,
  lastOp, signals,
  \* the number of frames outside editing that read the current features as
  \* a beat; the joint name of the last direct solveJoint call; the joint
  \* arrays of recorded or saved poses that are the very arrays of the editor
  \* pose, as <<sequence (0: the recording buffer), pose, joint>>
  observed, solved, aliases,
  \* AudioService.audioContext ("null", "running", or "closing" once close()
  \* was called on it) and the kind of AudioService.source; App's
  \* fileAudioElementRef ("null" or "audio") and whether handleMicStart has
  \* paused the element of the last file selection; where a started
  \* handleMicStart / handleFileSelect is waiting; whether a source start
  \* has ended in its catch branch on a refusal
  audioContext, source, fileAudioElementRef, audioPaused, micStart, fileStart,
  failed

audioVars == <<analyser, dataArray, timeArray, previousSpectrum, lastBeatTime,
               beatThreshold, now, calls, ret, beatLog, earlier>>
appVars == <<sourceType, features, mapping, damping, customSequences,
             activeSequenceId, editorPose>>
panelVars == <<showConfig, activeTab, ctlEditorPose, sequenceFrames,
               sequenceName, selectedJoint, adds, signals, aliases>>
robotVars == <<physicsState, timeRef, moveIndex, ticks, frame, targetPose, moved,
               observed, solved>>

handlerVars == <<fileAudioElementRef, audioPaused, micStart, fileStart, failed>>
startVars == <<audioContext, source, handlerVars>>

vars == <<audioVars, appVars, panelVars, robotVars, startVars, lastOp>>

\* customSequences.find(s => s.id === activeSequenceId) || null
activeSequenceOf(sequences, id) ==
  IF \E k \in DOMAIN sequences : Some(sequences[k].id) = id
  THEN Some(sequences[CHOOSE k \in DOMAIN sequences :
                        /\ Some(sequences[k].id) = id
                        /\ \A m \in DOMAIN sequences :
                             Some(sequences[m].id) = id => k <= m])
  ELSE Null

activeSequence == activeSequenceOf(customSequences, activeSequenceId)

AudioInit ==
  /\ analyser = FALSE
  /\ dataArray = "null"
  /\ timeArray = "null"
  /\ previousSpectrum = "null"
  /\ lastBeatTime = 0
  /\ beatThreshold = BeatInitial
  /\ now = 0
  /\ calls = 0
  /\ ret = getEmptyFeatures
  /\ beatLog = <<>>
  /\ earlier = Null

AppInit ==
  /\ sourceType = "none"
  /\ features = getEmptyFeatures
  /\ mapping = DEFAULT_MAPPING
  /\ damping = 6
  /\ customSequences = <<>>
  /\ activeSequenceId = Null
  /\ editorPose = Null

PanelInit ==
  /\ showConfig = FALSE
  /\ activeTab = "config"
  /\ ctlEditorPose = DEFAULT_POSE
  /\ sequenceFrames = <<>>
  /\ sequenceName = "My Cool Dance"
  /\ selectedJoint = "lArm"
  /\ adds = 0
  /\ signals = {}
  /\ aliases = {}

RobotInit ==
  /\ physicsState = InitialPhysics
  /\ timeRef = 0
  /\ moveIndex = 0
  /\ ticks = 0
  /\ frame = Null
  /\ targetPose = Null
  /\ moved = Null
  /\ observed = 0
  /\ solved = Null

StartInit ==
  /\ audioContext = "null"
  /\ source = "null"
  /\ fileAudioElementRef = "null"
  /\ audioPaused = FALSE
  /\ micStart = "idle"
  /\ fileStart = "idle"
  /\ failed = FALSE

Init ==
  AudioInit /\ AppInit /\ PanelInit /\ RobotInit /\ StartInit /\ lastOp = "init"

\* ---- AudioService operations ----

\* setupAnalyser on the service alone
AnalyserSetup ==
  /\ analyser' = TRUE
  /\ dataArray' = "silent"
  /\ timeArray' = "zero"
  /\ previousSpectrum' = "silent"
  /\ earlier' = Null
  /\ lastOp' = "setupAnalyser"
  /\ UNCHANGED <<lastBeatTime, beatThreshold, now, calls, ret, beatLog>>

\* the end of an initializeMic / initializeFile that succeeds: the context
\* made by this call is running and setupAnalyser has run on the source of
\* the given kind
Started(kind) ==
  /\ AnalyserSetup
  /\ audioContext' = "running"
  /\ source' = kind

\* AudioService.cleanup: the analyser is dropped; the buffers and the beat
\* state are left as they are
AnalyserCleanup ==
  /\ analyser' = FALSE
  /\ lastOp' = "cleanup"
  /\ UNCHANGED <<dataArray, timeArray, previousSpectrum, lastBeatTime,
                 beatThreshold, now, calls, ret, beatLog, earlier>>

\* the end of an initializeMic whose getUserMedia rejects: the cleanup has
\* happened and the new context is left without source and analyser
Refused ==
  /\ AnalyserCleanup
  /\ audioContext' = "running"
  /\ source' = "null"

\* initializeMic: cleanup, then setupAnalyser when getUserMedia resolves;
\* when it rejects only the cleanup has happened
initializeMic ==
  /\ Started("mic") \/ Refused
  /\ UNCHANGED <<appVars, panelVars, robotVars, handlerVars>>

\* initializeFile: cleanup, then setupAnalyser
initializeFile ==
  /\ Started("file")
  /\ UNCHANGED <<appVars, panelVars, robotVars, handlerVars>>

\* variant of the guard of getFeatures that forgets the analyser
HasBuffersOnly(node, data, tdata) == data # "null" /\ tdata # "null"

\* the negation of !this.analyser || !this.dataArray || !this.timeArray
HasBuffers(node, data, tdata) == node /\ data # "null" /\ tdata # "null"

\* one getFeatures call on the service alone, with the buffers and the clock
\* step drawn from the given sets, in a run of at most `limit` calls
FeaturesCallWithin(frames, steps, limit) ==
  /\ calls < limit
  /\ \E step \in steps :
       /\ now + step <= MaxNow
       /\ now' = now + step
  /\ calls' = calls + 1
  /\ lastOp' = "getFeatures"
  /\ IF ~HasBuffers(analyser, dataArray, timeArray)
     THEN /\ ret' = getEmptyFeatures
          /\ UNCHANGED <<analyser, dataArray, timeArray, previousSpectrum,
                         lastBeatTime, beatThreshold, beatLog, earlier>>
     ELSE \E buffers \in frames :
            LET f == Analyse(buffers[1], buffers[2], previousSpectrum, beatThreshold,
                             now', lastBeatTime)
            IN  /\ ret' = f
                /\ dataArray' = buffers[1]
                /\ timeArray' = buffers[2]
                /\ previousSpectrum' = buffers[1]
                /\ lastBeatTime' = IF f.isBeat THEN now' ELSE lastBeatTime
                /\ beatThreshold' = IF f.isBeat THEN BeatSpike
                                    ELSE DecayThreshold(beatThreshold)
                /\ beatLog' = IF f.isBeat THEN Append(beatLog, now') ELSE beatLog
                /\ earlier' = IF lastOp = "getFeatures" THEN Some(<<dataArray, timeArray>>)
                               ELSE Null
                /\ UNCHANGED analyser

FeaturesCall(frames, steps) == FeaturesCallWithin(frames, steps, MaxCalls)

getFeatures ==
  /\ FeaturesCall(Frames, ClockSteps)
  /\ UNCHANGED <<appVars, panelVars, robotVars>>
  /\ UNCHANGED startVars

AudioNext == initializeMic \/ initializeFile \/ getFeatures

SpecAudio == Init /\ [][AudioNext]_vars

\* ---- AudioService over a long run: the beat threshold ----

\* a run long enough for the threshold to decay from 0.6 to its floor
MaxPolls == 30
\* a bass-heavy spectrum (bass 200/255) and silence; the clock either stands
\* still between two calls or passes the minimum interval
TrackedFrames == {<<"bass", "centred">>, <<"silent", "centred">>}
TrackedSteps == {0, beatMinInterval + 1}

trackBeat ==
  /\ FeaturesCallWithin(TrackedFrames, TrackedSteps, MaxPolls)
  /\ UNCHANGED <<appVars, panelVars, robotVars>>
  /\ UNCHANGED startVars

BeatNext == initializeMic \/ trackBeat

SpecBeat == Init /\ [][BeatNext]_vars

\* ---- App and ControlPanel handlers ----

\* variant of the report that ignores the tab
ReportedPoseAnyTab(show, tab, pose) == IF show THEN Some(pose) ELSE Null

\* the effect that reports the editor state to the parent
ReportedPose(show, tab, pose) ==
  IF show /\ tab = "sequencer" THEN Some(pose) ELSE Null

\* setFeatures(data) of updateFeatures
setFeatures ==
  /\ \E data \in FeatureSamples \ {features} : features' = data
  /\ lastOp' = "ui"
  /\ observed' = 0
  /\ UNCHANGED <<sourceType, mapping, damping, customSequences, activeSequenceId,
                 editorPose>>
  /\ UNCHANGED <<physicsState, timeRef, moveIndex, ticks, frame, targetPose, moved,
                 solved>>
  /\ UNCHANGED <<audioVars, panelVars>>
  /\ UNCHANGED startVars

\* onClick={() => setShowConfig(!showConfig)}
toggleConfig ==
  /\ showConfig' = ~showConfig
  /\ editorPose' = ReportedPose(showConfig', activeTab, ctlEditorPose)
  /\ signals' = {}
  /\ lastOp' = "ui"
  /\ UNCHANGED <<activeTab, ctlEditorPose, sequenceFrames, sequenceName,
                 selectedJoint, adds, aliases>>
  /\ UNCHANGED <<sourceType, features, mapping, damping, customSequences, activeSequenceId>>
  /\ UNCHANGED <<audioVars, robotVars>>
  /\ UNCHANGED startVars

\* onClick={() => setActiveTab(tab)}
setActiveTab ==
  /\ \E tab \in {"config", "sequencer"} \ {activeTab} : activeTab' = tab
  /\ editorPose' = ReportedPose(showConfig, activeTab', ctlEditorPose)
  /\ signals' = {}
  /\ lastOp' = "ui"
  /\ UNCHANGED <<showConfig, ctlEditorPose, sequenceFrames, sequenceName,
                 selectedJoint, adds, aliases>>
  /\ UNCHANGED <<sourceType, features, mapping, damping, customSequences, activeSequenceId>>
  /\ UNCHANGED <<audioVars, robotVars>>
  /\ UNCHANGED startVars

\* The joint arrays of the poses in `frames` at the locations `written` of
\* sequence n, with val stored on the axis
StoreAt(frames, n, written, axis, val) ==
  IF written = {} THEN frames
  ELSE [k \in DOMAIN frames |->
          [j \in DOMAIN frames[k] |->
             IF <<n, k, j>> \in written
             THEN [frames[k][j] EXCEPT ![axis + 1] = val]
             ELSE frames[k][j]]]

StoreSaved(sequences, written, axis, val) ==
  IF written = {} THEN sequences
  ELSE [n \in DOMAIN sequences |->
          [sequences[n] EXCEPT
             !.poses = StoreAt(sequences[n].poses, n, written, axis, val)]]

\* variant of the slider write that stores into the editor's joint array
\* itself, and so into every pose that holds the same array
WriteJointInPlace(pose, shared, joint, axis, val) ==
  [pose |-> [pose EXCEPT ![joint] = [@ EXCEPT ![axis + 1] = val]],
   written |-> {a \in shared : a[3] = joint},
   shared |-> shared]

\* newPose = { ...editorPose }; newJoint = [...newPose[selectedJoint]];
\* newJoint[axis] = val; newPose[selectedJoint] = newJoint: the write goes to a
\* fresh array, which no recorded or saved pose holds
WriteJoint(pose, shared, joint, axis, val) ==
  [pose |-> [pose EXCEPT ![joint] = [@ EXCEPT ![axis + 1] = val]],
   written |-> {},
   shared |-> {a \in shared : a[3] # joint}]

\* a slider of the pose editor: updatePose(axis, val)
updatePose ==
  /\ activeTab = "sequencer"
  /\ \E axis \in SliderAxes, val \in SliderValues :
       /\ ctlEditorPose[selectedJoint][axis + 1] # val
       /\ \E w \in {WriteJoint(ctlEditorPose, aliases, selectedJoint, axis, val)} :
            /\ ctlEditorPose' = w.pose
            /\ aliases' = w.shared
            /\ sequenceFrames' = StoreAt(sequenceFrames, 0, w.written, axis, val)
            /\ customSequences' = StoreSaved(customSequences, w.written, axis, val)
  /\ editorPose' = ReportedPose(showConfig, activeTab, ctlEditorPose')
  /\ signals' = {}
  /\ lastOp' = "ui"
  /\ UNCHANGED <<showConfig, activeTab, sequenceName, selectedJoint, adds>>
  /\ UNCHANGED <<sourceType, features, mapping, damping, activeSequenceId>>
  /\ UNCHANGED <<audioVars, robotVars>>
  /\ UNCHANGED startVars

\* setSequenceFrames([...sequenceFrames, { ...editorPose }])
addFrame ==
  /\ activeTab = "sequencer"
  /\ adds < MaxAdds
  /\ adds' = adds + 1
  /\ sequenceFrames' = Append(sequenceFrames, ctlEditorPose)
  /\ aliases' = aliases \cup {<<0, Len(sequenceFrames) + 1, j>> : j \in PoseJoints}
  /\ signals' = {}
  /\ lastOp' = "ui"
  /\ UNCHANGED <<showConfig, activeTab, ctlEditorPose, sequenceName, selectedJoint>>
  /\ UNCHANGED <<appVars, audioVars, robotVars>>
  /\ UNCHANGED startVars

\* onClick={() => setSequenceFrames([])}
clearFrames ==
  /\ activeTab = "sequencer"
  /\ sequenceFrames # <<>>
  /\ sequenceFrames' = <<>>
  /\ aliases' = {a \in aliases : a[1] # 0}
  /\ signals' = {}
  /\ lastOp' = "ui"
  /\ UNCHANGED <<showConfig, activeTab, ctlEditorPose, sequenceName,
                 selectedJoint, adds>>
  /\ UNCHANGED <<appVars, audioVars, robotVars>>
  /\ UNCHANGED startVars

\* onChange={(e) => setSequenceName(e.target.value)}
setSequenceName ==
  /\ activeTab = "sequencer"
  /\ \E name \in Names \ {sequenceName} : sequenceName' = name
  /\ signals' = {}
  /\ lastOp' = "ui"
  /\ UNCHANGED <<showConfig, activeTab, ctlEditorPose, sequenceFrames,
                 selectedJoint, adds, aliases>>
  /\ UNCHANGED <<appVars, audioVars, robotVars>>
  /\ UNCHANGED startVars

\* id: Date.now().toString()
NewSequence(clock, name, frames) ==
  [id |-> toString(clock), name |-> name, poses |-> frames]

\* variant that puts the new sequence first
handleSaveSequenceFirst(prev, seq) == <<seq>> \o prev

\* setCustomSequences(prev => [...prev, seq])
handleSaveSequence(prev, seq) == Append(prev, seq)

\* variant of the save that keeps the recorded frames
FramesKeptAfterSave(frames) == frames

\* setSequenceFrames([]) at the end of a save
FramesAfterSave(frames) == <<>>

\* ControlPanel.saveSequence; signals: what the handler lets its caller see
saveSequence ==
  /\ activeTab = "sequencer"
  /\ lastOp' = "saveSequence"
  /\ IF Len(sequenceFrames) = 0
     THEN /\ signals' = {}
          /\ UNCHANGED <<customSequences, sequenceFrames, aliases>>
     ELSE \E clock \in DateReadings :
            /\ customSequences' =
                 handleSaveSequence(customSequences,
                                    NewSequence(clock, sequenceName, sequenceFrames))
            /\ sequenceFrames' = FramesAfterSave(sequenceFrames)
            /\ aliases' = {a \in aliases : a[1] # 0} \cup
                 {<<Len(customSequences) + 1, a[2], a[3]>> : a \in {c \in aliases : c[1] = 0}}
            /\ signals' = {"onSaveSequence", "alert: Sequence Saved!"}
  /\ UNCHANGED <<showConfig, activeTab, ctlEditorPose, sequenceName,
                 selectedJoint, adds>>
  /\ UNCHANGED <<sourceType, features, mapping, damping, activeSequenceId, editorPose>>
  /\ UNCHANGED <<audioVars, robotVars>>
  /\ UNCHANGED startVars

\* onSelectSequence(activeSequenceId === seq.id ? null : seq.id) on a saved
\* sequence, onSelectSequence(null) on the procedural entry
selectSequence ==
  /\ activeTab = "sequencer"
  /\ \/ \E k \in DOMAIN customSequences :
          activeSequenceId' = IF activeSequenceId = Some(customSequences[k].id)
                              THEN Null
                              ELSE Some(customSequences[k].id)
     \/ /\ activeSequenceId # Null
        /\ activeSequenceId' = Null
  /\ signals' = {}
  /\ lastOp' = "ui"
  /\ UNCHANGED <<showConfig, activeTab, ctlEditorPose, sequenceFrames,
                 sequenceName, selectedJoint, adds, aliases>>
  /\ UNCHANGED <<sourceType, features, mapping, damping, customSequences, editorPose>>
  /\ UNCHANGED <<audioVars, robotVars>>
  /\ UNCHANGED startVars

PanelNext ==
  \/ toggleConfig
  \/ setActiveTab
  \/ updatePose
  \/ addFrame
  \/ clearFrames
  \/ setSequenceName
  \/ saveSequence
  \/ selectSequence

SpecSeq == Init /\ [][PanelNext]_vars

\* ---- Robot ----

\* the unclamped result of the integration step of the three axes of a call
MovedAxes(state, c, dt) ==
  [i \in 1 .. 3 |->
     Integrate(c.target[i] + c.noise[i], state.rotation[i], state.velocity[i],
               dt, c.stiffness, c.damping)]

\* the unclamped result of the integration step of every joint and axis
MovedOf(physics, jointCalls, dt) ==
  [j \in Joints |->
     MovedAxes(physics[j],
               jointCalls[CHOOSE n \in DOMAIN jointCalls : jointCalls[n].name = j],
               dt)]

\* the outcomes of Math.random() > 0.5 and Math.floor(Math.random() * 4) on a
\* frame that consults them: a beat with no editor pose and no sequence
RandomDraws(f, pose, sequence) ==
  IF pose = Null /\ f.isBeat /\ sequence = Null
  THEN BOOLEAN \X (0 .. 3)
  ELSE {<<FALSE, 0>>}

useFrame ==
  /\ ticks < MaxTicks
  /\ ticks' = ticks + 1
  /\ \E delta \in FrameDeltas,
        random \in RandomDraws(features, editorPose, activeSequence) :
       \E r \in {UseFrame(physicsState, timeRef, moveIndex, features, mapping,
                          editorPose, activeSequence, damping, delta,
                          random[1], random[2])} :
         /\ physicsState' = r.physics
         /\ timeRef' = r.time
         /\ moveIndex' = r.moveIndex
         /\ targetPose' = Some(r.targetPose)
         /\ moved' = Some(MovedOf(physicsState, r.calls, r.dt))
         /\ frame' = Some([editorPose |-> editorPose,
                           activeSequence |-> activeSequence,
                           features |-> features,
                           delta |-> delta])
  /\ observed' = IF features.isBeat /\ editorPose = Null THEN observed + 1
                  ELSE observed
  /\ UNCHANGED solved
  /\ lastOp' = "useFrame"
  /\ UNCHANGED <<appVars, audioVars, panelVars>>
  /\ UNCHANGED startVars

\* a session with the microphone as source in which a sequence was saved,
\* the sequencer tab is open and every slider of the pose editor was moved to
\* its maximum afterwards
SolverInit ==
  /\ AudioInit /\ RobotInit /\ StartInit
  /\ sourceType = "mic"
  /\ features = getEmptyFeatures
  /\ mapping = DEFAULT_MAPPING
  /\ damping = 6
  /\ customSequences = SavedCatalog
  /\ activeSequenceId = Null
  /\ showConfig = TRUE
  /\ activeTab = "sequencer"
  /\ ctlEditorPose = HighPose
  /\ editorPose = Some(HighPose)
  /\ sequenceFrames = <<>>
  /\ sequenceName = "My Cool Dance"
  /\ selectedJoint = "lArm"
  /\ adds = 0
  /\ signals = {}
  /\ aliases = {}
  /\ lastOp = "init"

SolverNext ==
  \/ setFeatures
  \/ toggleConfig
  \/ selectSequence
  \/ useFrame

SpecSolver == SolverInit /\ [][SolverNext]_vars

\* ---- Robot as a component: its props and solveJoint on their own ----

\* a catalog whose only sequence has no pose: the sequence without poses of
\* the selector's contract (saveSequence never stores one)
UnfilledCatalog ==
  << [id |-> toString(1001), name |-> "Test", poses |-> <<>>] >>

\* Robot under a parent whose catalog is UnfilledCatalog, the panel closed
\* on the sequencer tab
RobotPropsInit ==
  /\ AudioInit /\ RobotInit /\ StartInit
  /\ sourceType = "mic"
  /\ features = getEmptyFeatures
  /\ mapping = DEFAULT_MAPPING
  /\ damping = 6
  /\ customSequences = UnfilledCatalog
  /\ activeSequenceId = Null
  /\ showConfig = FALSE
  /\ activeTab = "sequencer"
  /\ ctlEditorPose = DEFAULT_POSE
  /\ editorPose = Null
  /\ sequenceFrames = <<>>
  /\ sequenceName = "My Cool Dance"
  /\ selectedJoint = "lArm"
  /\ adds = 0
  /\ signals = {}
  /\ aliases = {}
  /\ lastOp = "init"

RobotNext ==
  \/ setFeatures
  \/ selectSequence
  \/ useFrame

SpecRobot == RobotPropsInit /\ [][RobotNext]_vars

\* joint names, targets and steps of direct solveJoint calls; "tail" has no
\* physics state
CalledJoints == Joints \cup {"tail"}
CalledTargets == {<<0, 0, 0>>, <<3140, -3140, 3140>>}

\* one call of solveJoint with the default noise [0,0,0]; ticks counts these
\* calls too
solveJointCall ==
  /\ ticks < MaxTicks
  /\ ticks' = ticks + 1
  /\ \E jointName \in CalledJoints, targetRot \in CalledTargets,
        delta \in FrameDeltas :
       /\ physicsState' = solveJoint(physicsState, jointName, targetRot,
                                     ClampDt(delta), 40 * FS, 6, <<0, 0, 0>>)
       /\ solved' = Some(jointName)
  /\ lastOp' = "solveJoint"
  /\ UNCHANGED <<timeRef, moveIndex, frame, targetPose, moved, observed>>
  /\ UNCHANGED <<appVars, audioVars, panelVars>>
  /\ UNCHANGED startVars

SpecJoint == Init /\ [][solveJointCall]_vars

\* ---- App: audio source and the polling loop ----

\* buffers and clock step of the polled calls
PolledFrames == {<<"full", "square">>, <<"silent", "centred">>}
PolledSteps == {beatMinInterval + 1}

\* handleMicStart: initializeMic, then setSourceType('mic'); when the
\* microphone is refused the catch branch leaves sourceType as it is
handleMicStart ==
  /\ micStart = "idle" /\ fileStart = "idle"
  /\ \/ /\ Started("mic")
        /\ sourceType' = "mic"
        /\ audioPaused' = (audioPaused \/ fileAudioElementRef # "null")
        /\ fileAudioElementRef' = "null"
        /\ UNCHANGED failed
     \/ /\ Refused
        /\ failed' = TRUE
        /\ UNCHANGED <<sourceType, fileAudioElementRef, audioPaused>>
  /\ UNCHANGED <<micStart, fileStart>>
  /\ UNCHANGED <<features, mapping, damping, customSequences, activeSequenceId,
                 editorPose>>
  /\ UNCHANGED <<panelVars, robotVars>>

\* handleFileSelect with a file that plays: initializeFile, then
\* setSourceType('file') and audio.onended is set
handleFileSelect ==
  /\ micStart = "idle" /\ fileStart = "idle"
  /\ Started("file")
  /\ sourceType' = "file"
  /\ fileAudioElementRef' = "audio"
  /\ audioPaused' = FALSE
  /\ UNCHANGED <<micStart, fileStart, failed>>
  /\ UNCHANGED <<features, mapping, damping, customSequences, activeSequenceId,
                 editorPose>>
  /\ UNCHANGED <<panelVars, robotVars>>

\* audio.onended = () => setSourceType('none'); the effect's cleanup cancels
\* the pending animation frame
onended ==
  /\ sourceType = "file"
  /\ sourceType' = "none"
  /\ lastOp' = "onended"
  /\ UNCHANGED <<features, mapping, damping, customSequences, activeSequenceId,
                 editorPose>>
  /\ UNCHANGED <<audioVars, panelVars, robotVars>>
  /\ UNCHANGED startVars

\* the animation-frame callback, scheduled while sourceType !== 'none':
\* data = audioService.getFeatures(); setFeatures(data)
PollFeatures(frames, steps) ==
  /\ sourceType # "none"
  /\ FeaturesCall(frames, steps)
  /\ features' = ret'
  /\ observed' = 0
  /\ UNCHANGED <<sourceType, mapping, damping, customSequences, activeSequenceId,
                 editorPose>>
  /\ UNCHANGED <<physicsState, timeRef, moveIndex, ticks, frame, targetPose, moved,
                 solved>>
  /\ UNCHANGED panelVars
  /\ UNCHANGED startVars

updateFeatures == PollFeatures(PolledFrames, PolledSteps)

LoopNext ==
  \/ handleMicStart
  \/ handleFileSelect
  \/ onended
  \/ updateFeatures
  \/ useFrame

SpecLoop == Init /\ [][LoopNext]_vars

\* ---- App: source starts that overlap at their await points ----
\* handleMicStart waits for audioContext.close() inside cleanup (when there is
\* a context) and for getUserMedia; handleFileSelect waits for audio.play()
\* and for audioContext.close().  Each action below is the code from one of
\* these waits to the next; a wait on an already settled promise does not let
\* the other handler in.

\* this.source = null; this.analyser = null; this.audioContext = null after
\* the close, then this.audioContext = new AudioContext()
Reopened ==
  /\ AnalyserCleanup
  /\ audioContext' = "running"
  /\ source' = "null"

\* the click: initializeMic is entered and cleanup runs up to its wait for
\* the close, or through to getUserMedia when there is no context
micBegin ==
  /\ micStart = "idle"
  /\ IF audioContext = "null"
     THEN /\ Reopened
          /\ micStart' = "asking"
     ELSE /\ audioContext' = "closing"
          /\ micStart' = "closing"
          /\ lastOp' = "handleMicStart"
          /\ UNCHANGED <<audioVars, source>>
  /\ UNCHANGED <<fileAudioElementRef, audioPaused, fileStart, failed>>
  /\ UNCHANGED <<appVars, panelVars, robotVars>>

\* the close has settled: the fields are cleared, a context is made and
\* getUserMedia is called
micClosed ==
  /\ micStart = "closing"
  /\ Reopened
  /\ micStart' = "asking"
  /\ UNCHANGED <<fileAudioElementRef, audioPaused, fileStart, failed>>
  /\ UNCHANGED <<appVars, panelVars, robotVars>>

\* getUserMedia resolves: createMediaStreamSource on this.audioContext and
\* setupAnalyser, then setSourceType('mic') and the file element is paused
\* and forgotten.  On a context that the other handler is closing the
\* creation of the source may throw, which ends in the catch branch.
micGranted ==
  /\ micStart = "asking"
  /\ micStart' = "idle"
  /\ \/ /\ AnalyserSetup
        /\ source' = "mic"
        /\ sourceType' = "mic"
        /\ audioPaused' = (audioPaused \/ fileAudioElementRef # "null")
        /\ fileAudioElementRef' = "null"
        /\ UNCHANGED <<audioContext, failed>>
     \/ /\ audioContext = "closing"
        /\ failed' = TRUE
        /\ lastOp' = "handleMicStart"
        /\ UNCHANGED <<audioVars, audioContext, source, sourceType,
                       fileAudioElementRef, audioPaused>>
  /\ UNCHANGED fileStart
  /\ UNCHANGED <<features, mapping, damping, customSequences, activeSequenceId,
                 editorPose>>
  /\ UNCHANGED <<panelVars, robotVars>>

\* getUserMedia rejects: the catch branch
micDenied ==
  /\ micStart = "asking"
  /\ micStart' = "idle"
  /\ failed' = TRUE
  /\ lastOp' = "handleMicStart"
  /\ UNCHANGED <<audioContext, source, fileAudioElementRef, audioPaused, fileStart>>
  /\ UNCHANGED <<audioVars, appVars, panelVars, robotVars>>

\* the file is chosen: the element is made and referenced, play() is called
fileBegin ==
  /\ fileStart = "idle"
  /\ fileStart' = "playing"
  /\ fileAudioElementRef' = "audio"
  /\ audioPaused' = FALSE
  /\ lastOp' = "handleFileSelect"
  /\ UNCHANGED <<audioContext, source, micStart, failed>>
  /\ UNCHANGED <<audioVars, appVars, panelVars, robotVars>>

\* the rest of handleFileSelect once the context of the service is gone:
\* a context is made, createMediaElementSource, setupAnalyser,
\* setSourceType('file')
FileInstalled ==
  /\ Started("file")
  /\ sourceType' = "file"
  /\ fileStart' = "idle"

\* play() settles.  It rejects when the element was paused in the meantime
\* (the catch branch, nothing else happens); otherwise initializeFile is
\* entered and cleanup runs up to its wait for the close, or the whole
\* handler runs when there is no context.
filePlayed ==
  /\ fileStart = "playing"
  /\ IF audioPaused
     THEN /\ fileStart' = "idle"
          /\ lastOp' = "handleFileSelect"
          /\ UNCHANGED <<audioVars, audioContext, source, sourceType>>
     ELSE IF audioContext = "null"
     THEN FileInstalled
     ELSE /\ audioContext' = "closing"
          /\ fileStart' = "closing"
          /\ lastOp' = "handleFileSelect"
          /\ UNCHANGED <<audioVars, source, sourceType>>
  /\ UNCHANGED <<fileAudioElementRef, audioPaused, micStart, failed>>
  /\ UNCHANGED <<features, mapping, damping, customSequences, activeSequenceId,
                 editorPose>>
  /\ UNCHANGED <<panelVars, robotVars>>

\* the close has settled: the rest of handleFileSelect
fileClosed ==
  /\ fileStart = "closing"
  /\ FileInstalled
  /\ UNCHANGED <<fileAudioElementRef, audioPaused, micStart, failed>>
  /\ UNCHANGED <<features, mapping, damping, customSequences, activeSequenceId,
                 editorPose>>
  /\ UNCHANGED <<panelVars, robotVars>>

SourceNext ==
  \/ micBegin
  \/ micClosed
  \/ micGranted
  \/ micDenied
  \/ fileBegin
  \/ filePlayed
  \/ fileClosed

SpecSource == Init /\ [][SourceNext]_vars

\* ---- App with no saved sequence and the panel closed: procedural dance ----

\* the polled spectra: full (energy 1) and bass-heavy (energy below 0.6)
DanceFrames == {<<"full", "square">>, <<"bass", "centred">>}

danceFeatures == PollFeatures(DanceFrames, PolledSteps)

DanceNext ==
  \/ handleMicStart
  \/ danceFeatures
  \/ useFrame

SpecDance == Init /\ [][DanceNext]_vars

\* ------------------------------------------------------------------------
\* Properties of the feature extractor
\* ------------------------------------------------------------------------
Analysed == lastOp = "getFeatures" /\ analyser

ZeroFrame(f) ==
  /\ ~f.isBeat
  /\ f.pitch = 0
  /\ \A c \in 0 .. 11 : f.chroma[c] = 0
  /\ f.bass = 0 /\ f.mid = 0 /\ f.treble = 0 /\ f.energy = 0
  /\ f.rms = 0 /\ f.spectralCentroid = 0 /\ f.spectralFlux = 0

\* C1: any two calls that returned isBeat = true have clock readings more
\* than 300 ms apart.
BeatRefractory ==
  \A i \in DOMAIN beatLog : \A j \in DOMAIN beatLog :
    i < j => beatLog[j] - beatLog[i] > beatMinInterval

TwoBeats == Len(beatLog) >= 2

\* C9 as stated: after a call that read an all-zero spectrum and an all-zero
\* time-domain buffer the returned frame is all zero.
SilenceZeroBytes ==
  (Analysed /\ dataArray = "silent" /\ timeArray = "zero") => ZeroFrame(ret)

\* C9 amended: after a call that read an all-zero spectrum and a time-domain
\* buffer at the zero-signal level (every byte 128) the returned frame is all
\* zero, whatever the extractor analysed before; with all-zero time bytes the
\* rms is 1.
SilenceIdempotent ==
  /\ (Analysed /\ dataArray = "silent" /\ timeArray = "centred")
       => ZeroFrame(ret)
  /\ (Analysed /\ timeArray = "zero") => ret.rms = FS

SilentTwice ==
  /\ Analysed
  /\ dataArray = "silent" /\ timeArray = "centred"
  /\ earlier = Some(<<"silent", "centred">>)
  /\ ZeroFrame(ret)

InUnit(v) == 0 <= v /\ v <= FS

\* C10: every returned band, energy, rms, centroid, flux and chroma entry
\* lies in [0,1], and pitch is 0 or at least the frequency of bin 1.
FeatureRanges ==
  /\ InUnit(ret.bass) /\ InUnit(ret.mid) /\ InUnit(ret.treble)
  /\ InUnit(ret.energy) /\ InUnit(ret.rms)
  /\ InUnit(ret.spectralCentroid) /\ InUnit(ret.spectralFlux)
  /\ \A c \in 0 .. 11 : InUnit(ret.chroma[c])
  /\ (ret.pitch = 0 \/ ret.pitch >= (nyquist * 10) \div bufferLength)

LoudFrameReturned ==
  /\ Analysed
  /\ ret.pitch > 0
  /\ ret.spectralFlux = FS
  /\ ret.rms > 0
  /\ ret.bass = FS

\* ------------------------------------------------------------------------
\* Properties of the joint solver
\* ------------------------------------------------------------------------
Axes == 1 .. 3

\* C2: after every frame, every axis of each of the eleven joints holds a
\* rotation within the limits solveJoint uses for that joint (the limits of
\* JOINT_LIMITS, and [-10,10] for hips, which has no entry).
JointLimits ==
  \A j \in Joints : \A i \in Axes :
    /\ LimitsOf(j)[i][1] <= physicsState[j].rotation[i]
    /\ physicsState[j].rotation[i] <= LimitsOf(j)[i][2]

ArmAtLimitHipsMoved ==
  /\ lastOp = "useFrame"
  /\ physicsState.lArm.rotation[1] = JOINT_LIMITS.lArm[1][2]
  /\ physicsState.hips.rotation[1] # 0
  /\ physicsState.lLeg.rotation[1] # 0

\* C3: an axis whose integrated position fell strictly below min or strictly
\* above max holds that limit and velocity 0 after the step; an axis whose
\* integrated position stayed within the limits holds the integrated position
\* and the integrated velocity.
ClampStop ==
  moved # Null =>
    \A j \in Joints : \A i \in Axes :
      LET m == moved[1][j][i]
          min == LimitsOf(j)[i][1]
          max == LimitsOf(j)[i][2]
          rot == physicsState[j].rotation[i]
          vel == physicsState[j].velocity[i]
      IN  /\ m.pos < min => (rot = min /\ vel = 0)
          /\ m.pos > max => (rot = max /\ vel = 0)
          /\ (min <= m.pos /\ m.pos <= max) => (rot = m.pos /\ vel = m.vel)

StoppedAndMoving ==
  /\ moved # Null
  /\ \E j \in Joints : \E i \in Axes :
       /\ moved[1][j][i].pos > LimitsOf(j)[i][2]
       /\ moved[1][j][i].vel # 0
       /\ physicsState[j].velocity[i] = 0
  /\ \E j \in Joints : \E i \in Axes :
       /\ moved[1][j][i].pos < LimitsOf(j)[i][1]
       /\ moved[1][j][i].vel # 0
       /\ physicsState[j].velocity[i] = 0
  /\ \E j \in Joints : \E i \in Axes :
       /\ moved[1][j][i].pos > LimitsOf(j)[i][1]
       /\ moved[1][j][i].pos < LimitsOf(j)[i][2]
       /\ physicsState[j].velocity[i] # 0

\* C4: on a frame with an editor pose the pose handed to the solver is the
\* editor pose, whatever sequence is active and whether or not the frame is
\* a beat.
EditorPoseFirst ==
  (frame # Null /\ frame[1].editorPose # Null)
    => targetPose = frame[1].editorPose

EditedOverSequenceOnBeat ==
  /\ lastOp = "useFrame"
  /\ frame[1].editorPose # Null
  /\ frame[1].activeSequence # Null
  /\ frame[1].features.isBeat
  /\ \A k \in DOMAIN frame[1].activeSequence[1].poses :
       frame[1].activeSequence[1].poses[k] # frame[1].editorPose[1]
  /\ targetPose = frame[1].editorPose

\* C8 as stated: a frame with elapsed time above 0.1 s leaves every joint with
\* the rotation and velocity that the frame with elapsed time 0.1 s produces
\* from the same state and inputs.
LargeDeltaAsTenth ==
  [][(lastOp' = "useFrame" /\ frame'[1].delta > ClampDt(frame'[1].delta))
       => \E random \in RandomDraws(features, editorPose, activeSequence) :
            physicsState' =
              UseFrame(physicsState, timeRef, moveIndex, features, mapping,
                       editorPose, activeSequence, damping,
                       ClampDt(frame'[1].delta), random[1], random[2]).physics]_vars

\* ------------------------------------------------------------------------
\* Properties of the sequencer
\* ------------------------------------------------------------------------

\* C5 as stated: a save with no recorded pose leaves the catalog, the active
\* sequence id and the recorded frames unchanged and lets the caller see the
\* rejection.
EmptySaveReported ==
  [][(lastOp' = "saveSequence" /\ Len(sequenceFrames) = 0)
       => /\ UNCHANGED <<customSequences, activeSequenceId, sequenceFrames>>
          /\ signals' # {}]_vars

\* C6: a save with n >= 1 recorded poses appends exactly one entry at the end
\* of the catalog, with the recorded poses in recording order and the entered
\* name; the entries already there keep their position and content.
SaveAppendsOne ==
  [][(lastOp' = "saveSequence" /\ Len(sequenceFrames) >= 1)
       => /\ Len(customSequences') = Len(customSequences) + 1
          /\ SubSeq(customSequences', 1, Len(customSequences)) = customSequences
          /\ customSequences'[Len(customSequences')].poses = sequenceFrames
          /\ customSequences'[Len(customSequences')].name = sequenceName]_vars

SavedAfterAnother ==
  /\ lastOp = "saveSequence"
  /\ signals # {}
  /\ Len(customSequences) = 2
  /\ customSequences[1].name # customSequences[2].name
  /\ customSequences[1].poses # customSequences[2].poses

\* C7 as stated: no two entries of the catalog have the same id.
UniqueIds ==
  \A i \in DOMAIN customSequences : \A j \in DOMAIN customSequences :
    i # j => customSequences[i].id # customSequences[j].id

\* ------------------------------------------------------------------------
\* Properties of the extractor's life cycle
\* ------------------------------------------------------------------------

\* C11 as stated: after a reinitialization previousSpectrum is cleared and
\* beatThreshold and lastBeatTime are back at their initial values.
ResetToBaseline ==
  lastOp = "setupAnalyser"
    => /\ previousSpectrum = "silent"
       /\ beatThreshold = BeatInitial
       /\ lastBeatTime = 0

\* C19: a getFeatures call made while the analyser or a buffer is missing
\* returns the all-zero frame and leaves previousSpectrum, beatThreshold and
\* lastBeatTime unchanged.
EmptyWithoutAnalyser ==
  [][(/\ lastOp' = "getFeatures"
      /\ (~analyser \/ dataArray = "null" \/ timeArray = "null"))
       => /\ ret' = getEmptyFeatures
          /\ ZeroFrame(ret')
          /\ UNCHANGED <<previousSpectrum, beatThreshold, lastBeatTime>>]_vars

EmptyAfterCleanup ==
  /\ lastOp = "getFeatures"
  /\ ~analyser
  /\ dataArray = "full"
  /\ beatThreshold = BeatSpike
  /\ lastBeatTime > 0
  /\ ZeroFrame(ret)

\* C21: a call that analyses a frame and returns a beat sets lastBeatTime to
\* the clock reading and beatThreshold to 1.0; a call that analyses a frame
\* and returns no beat leaves lastBeatTime unchanged and sets beatThreshold
\* to max(0.35, 0.98 * previous); beatThreshold is within [0.35, 1.0] in
\* every state, starting from 0.6.
ThresholdUpdate ==
  /\ beatThreshold = BeatInitial
  /\ [](BeatFloor <= beatThreshold /\ beatThreshold <= BeatSpike)
  /\ [][(/\ lastOp' = "getFeatures"
         /\ analyser /\ dataArray # "null" /\ timeArray # "null")
          => IF ret'.isBeat
             THEN /\ lastBeatTime' = now'
                  /\ beatThreshold' = BeatSpike
             ELSE /\ lastBeatTime' = lastBeatTime
                  /\ beatThreshold' =
                       Max(BeatFloor, (beatThreshold * beatDecay) \div 100)]_vars

\* a call with bass above the floor that came within the minimum interval,
\* returned no beat and left the threshold at its floor
SuppressedAtFloor ==
  /\ lastOp = "getFeatures"
  /\ analyser
  /\ ~ret.isBeat
  /\ ret.bass > BeatFloor
  /\ beatThreshold = BeatFloor

\* C22: a call returns isBeat = true only if the bass of that call exceeds
\* the threshold held before the call and more than 300 ms have passed since
\* the last beat; no earlier call's bass makes up for it.
BeatsNotQueued ==
  [][(lastOp' = "getFeatures" /\ ret'.isBeat)
       => /\ analyser
          /\ ret'.bass > beatThreshold
          /\ now' - lastBeatTime > beatMinInterval]_vars

\* a call with full bass was suppressed inside the minimum interval, and the
\* next call, silent and past the interval, returned no beat
DroppedBeatNotReplayed ==
  /\ lastOp = "getFeatures"
  /\ analyser
  /\ beatLog = <<>>
  /\ earlier = Some(<<"full", "square">>)
  /\ dataArray = "silent"
  /\ now - lastBeatTime > beatMinInterval
  /\ ~ret.isBeat

\* the summed per-bin increases, in bytes, from the spectrum `prev` to the
\* spectrum `name`
RisingBytes ==
  [name \in SpectrumNames, prev \in SpectrumNames |->
     LET rise == [i \in Bins |->
                    Max(0, SpectrumBytes(name)[i] - SpectrumBytes(prev)[i])]
     IN  SumRange(rise, 0, bufferLength)]

\* C23: the flux of a call is min(1, sum of the per-bin increases / 100) over
\* the spectrum the previous call stored (zeros right after setup), and the
\* call leaves its own spectrum stored; a call that reads the spectrum that
\* is stored returns flux 0.
FluxFromPrevious ==
  /\ [](lastOp = "setupAnalyser" => previousSpectrum = "silent")
  /\ [][(/\ lastOp' = "getFeatures"
         /\ analyser /\ dataArray # "null" /\ timeArray # "null")
          => /\ ret'.spectralFlux =
                  Min(FS, (RisingBytes[dataArray', previousSpectrum] * FS)
                            \div (ByteMax * FluxNorm))
             /\ previousSpectrum' = dataArray'
             /\ (dataArray' = previousSpectrum => ret'.spectralFlux = 0)]_vars

\* the full spectrum analysed twice in a row: no flux on the second call
SameSpectrumTwice ==
  /\ lastOp = "getFeatures"
  /\ analyser
  /\ earlier = Some(<<"full", "square">>)
  /\ dataArray = "full"
  /\ previousSpectrum = "full"
  /\ ret.spectralFlux = 0

\* the largest byte over bins 1 .. bufferLength-1 of each spectrum
PeakByte == [name \in SpectrumNames |-> maxValOf(SpectrumBytes(name))]

\* C24: the returned pitch is 0 exactly when no bin from 1 on is above 100,
\* and then every chroma slot is 0; when the pitch is above 0 some chroma
\* slot is exactly 1 and every slot is within [0,1].
ChromaGated ==
  /\ (lastOp = "getFeatures" /\ analyser)
       => (ret.pitch = 0 <=> PeakByte[dataArray] <= PitchFloor)
  /\ ret.pitch = 0 => \A c \in 0 .. 11 : ret.chroma[c] = 0
  /\ ret.pitch > 0 => /\ \E c \in 0 .. 11 : ret.chroma[c] = FS
                      /\ \A c \in 0 .. 11 : InUnit(ret.chroma[c])

\* a spectrum with several pitch classes above the gate, read after one whose
\* bins pass the gate but stay at 100
ChromaAfterGatedFrame ==
  /\ lastOp = "getFeatures"
  /\ analyser
  /\ earlier = Some(<<"floor", "zero">>)
  /\ dataArray = "bass"
  /\ ret.pitch > 0
  /\ \E c \in 0 .. 11 : ret.chroma[c] = FS
  /\ \E c \in 0 .. 11 : 0 < ret.chroma[c] /\ ret.chroma[c] < FS

\* ------------------------------------------------------------------------
\* Properties of the pose selector
\* ------------------------------------------------------------------------

\* C13: the cursor changes only on a frame outside editing whose features
\* have isBeat = true; frames without a beat, frames in editing mode and
\* selecting a sequence leave it unchanged.
CursorOnlyOnBeat ==
  [][moveIndex' # moveIndex
       => /\ lastOp' = "useFrame"
          /\ editorPose = Null
          /\ features.isBeat]_vars

CursorMovedOnBeat ==
  /\ lastOp = "useFrame"
  /\ moveIndex # 0
  /\ frame[1].editorPose = Null
  /\ frame[1].features.isBeat
  /\ ticks = 1

\* C14: with a non-empty active sequence of length L and no editor pose, a
\* beat frame sets the cursor to (cursor + 1) mod L and hands the pose at the
\* new cursor to the solver.
SequenceOrder ==
  [][(/\ lastOp' = "useFrame"
      /\ editorPose = Null
      /\ features.isBeat
      /\ activeSequence # Null
      /\ Len(activeSequence[1].poses) > 0)
       => LET poses == activeSequence[1].poses
          IN  /\ moveIndex' = (moveIndex + 1) % Len(poses)
              /\ targetPose' = Some(poses[moveIndex' + 1])]_vars

SequenceWrapped ==
  /\ lastOp = "useFrame"
  /\ ticks = 2
  /\ moveIndex = 0
  /\ frame[1].editorPose = Null
  /\ frame[1].features.isBeat
  /\ frame[1].activeSequence # Null
  /\ targetPose = Some(frame[1].activeSequence[1].poses[1])
  /\ physicsState.lLeg.rotation[1] < 0

\* C15 as stated: on a frame with a non-empty active sequence and no editor
\* pose the pose handed to the solver is one of the poses of that sequence.
SequencePoseInPlayback ==
  (/\ frame # Null
   /\ frame[1].editorPose = Null
   /\ frame[1].activeSequence # Null
   /\ Len(frame[1].activeSequence[1].poses) > 0)
    => \E k \in DOMAIN frame[1].activeSequence[1].poses :
         targetPose = Some(frame[1].activeSequence[1].poses[k])

\* the solveJoint calls of the frame a step has just run
CallsOfFrame ==
  JointCalls(timeRef', ClampDt(frame'[1].delta), features, mapping, editorPose,
             damping, targetPose'[1])

\* C25 as stated: on a frame with an editor pose every one of the eleven
\* solveJoint calls has zero noise; head, spine, arms and legs get the
\* components of the editor pose with stiffness 150 and damping 20, and hips,
\* forearms and shins get the target 0.
EditingUnperturbed ==
  [][(lastOp' = "useFrame" /\ editorPose # Null)
       => \A n \in DOMAIN CallsOfFrame :
            LET c == CallsOfFrame[n]
            IN  /\ c.noise = <<0, 0, 0>>
                /\ IF c.name \in PoseJoints
                   THEN /\ c.target = editorPose[1][c.name]
                        /\ c.stiffness = 150 * FS
                        /\ c.damping = 20
                   ELSE c.target = <<0, 0, 0>>]_vars

\* the cursors a frame can leave in the current state if `sequence` is the
\* activeSequence prop
CursorOutcomes(sequence) ==
  {NextMoveIndex(moveIndex, features, editorPose, sequence, r[1], r[2]) :
     r \in RandomDraws(features, editorPose, sequence)}

\* C26: with no sequence selected and no editor pose, a beat frame can leave
\* the cursor at each of the indices 0..3 and at no other, the index differs
\* from the drawn one only when energy > 0.6 and is then 1, and the pose of
\* the built-in cycle at the new cursor is handed to the solver.
ProceduralPolicy ==
  /\ [](( /\ editorPose = Null
          /\ activeSequence = Null
          /\ features.isBeat)
         => /\ CursorOutcomes(Null) = 0 .. 3
            /\ \A r \in RandomDraws(features, editorPose, Null) :
                 LET next == NextMoveIndex(moveIndex, features, editorPose, Null,
                                           r[1], r[2])
                 IN  next # r[2] => (features.energy > 600 /\ next = 1))
  /\ [][( /\ lastOp' = "useFrame"
          /\ editorPose = Null
          /\ activeSequence = Null
          /\ features.isBeat)
         => /\ moveIndex' \in 0 .. 3
            /\ targetPose' = Some(defaultMoves[moveIndex' + 1])]_vars

\* the first frame, a beat with energy below 0.6, kept the cursor on pose 0
StayedOnQuietBeat ==
  /\ lastOp = "useFrame"
  /\ ticks = 1
  /\ moveIndex = 0
  /\ frame[1].editorPose = Null
  /\ frame[1].activeSequence = Null
  /\ frame[1].features.isBeat
  /\ frame[1].features.energy <= 600
  /\ targetPose = Some(defaultMoves[1])

\* ------------------------------------------------------------------------
\* Properties of the polling loop and the frame loop
\* ------------------------------------------------------------------------

\* C27 as stated: whenever sourceType is 'mic' or 'file' the service holds an
\* analyser on a source of that kind, also after a start that was refused.
SourceHasAnalyser ==
  sourceType # "none" => (analyser /\ source = sourceType)

\* C28 as stated: when a handleMicStart and a handleFileSelect that were
\* pending together have both completed, and no start was refused,
\* sourceType names the kind of source the analyser is installed on, and
\* with sourceType = 'file' the audio element is still referenced and was
\* not paused by the microphone handler.
StartsSerialized ==
  (/\ micStart = "idle" /\ fileStart = "idle"
   /\ ~failed
   /\ sourceType # "none")
    => /\ analyser
       /\ source = sourceType
       /\ sourceType = "file" => (fileAudioElementRef = "audio" /\ ~audioPaused)

\* C12 as stated: every features frame with isBeat = true is read as a beat
\* by exactly one frame of the solver: never by two, and by one before it is
\* replaced.
BeatObservedOnce ==
  [][/\ observed' <= 1
     /\ (features.isBeat /\ calls' # calls) => observed = 1]_vars

\* C20 as stated: neither getFeatures nor the solver's frame runs while
\* sourceType is 'none'.
CoreIdleWithoutSource ==
  [][(calls' # calls \/ ticks' # ticks) => sourceType # "none"]_vars

\* ------------------------------------------------------------------------
\* Properties of saved sequences
\* ------------------------------------------------------------------------

\* C17: no handler of the editor changes the id, the name or a pose of an
\* entry already in the catalog, although saved poses hold joint arrays that
\* the editor pose holds too.
SavedImmutable ==
  [][\A n \in DOMAIN customSequences :
       /\ n \in DOMAIN customSequences'
       /\ customSequences'[n] = customSequences[n]]_vars

EditedAfterSaveShared ==
  /\ lastOp = "ui"
  /\ Len(customSequences) >= 1
  /\ customSequences[1].poses[1].lArm # ctlEditorPose.lArm
  /\ customSequences[1].poses[1].head = ctlEditorPose.head
  /\ <<1, 1, "head">> \in aliases
  /\ <<1, 1, "lArm">> \notin aliases
  /\ sequenceFrames # <<>>

\* ------------------------------------------------------------------------
\* Properties of the editor
\* ------------------------------------------------------------------------

\* C29: the editor pose App holds is non-null exactly when the drawer is open
\* on the sequencer tab, and is then the panel's editor pose: a frame run in
\* such a state is handed that pose and keeps the cursor, whatever sequence is
\* selected; in every other state a frame is handed the pose at the cursor
\* of the selected sequence or of the built-in cycle.
EditorPoseReported ==
  /\ editorPose # Null <=> (showConfig /\ activeTab = "sequencer")
  /\ editorPose # Null
       => /\ editorPose = Some(ctlEditorPose)
          /\ SelectPose(moveIndex, editorPose, activeSequence) = ctlEditorPose
          /\ \A coin \in BOOLEAN, pick \in 0 .. 3 :
               NextMoveIndex(moveIndex, BeatFrame, editorPose, activeSequence,
                             coin, pick) = moveIndex
  /\ editorPose = Null
       => SelectPose(moveIndex, editorPose, activeSequence)
            = activeMoves(activeSequence)[moveIndex + 1]

\* the drawer is open on the sequencer tab with an edited pose while a saved
\* sequence is selected
EditingOverSelected ==
  /\ showConfig
  /\ activeTab = "sequencer"
  /\ activeSequence # Null
  /\ ctlEditorPose # DEFAULT_POSE
  /\ \A k \in DOMAIN activeSequence[1].poses :
       activeSequence[1].poses[k] # ctlEditorPose
  /\ editorPose = Some(ctlEditorPose)

\* C30: a save with recorded frames empties the recording buffer and adds
\* one entry; the catalog grows by nothing but such a save, one entry at a
\* time; a save that follows a stored save at once adds nothing.
SaveEmptiesBuffer ==
  [][/\ (lastOp' = "saveSequence" /\ Len(sequenceFrames) > 0)
          => /\ sequenceFrames' = <<>>
             /\ Len(customSequences') = Len(customSequences) + 1
     /\ Len(customSequences') # Len(customSequences)
          => /\ lastOp' = "saveSequence"
             /\ Len(sequenceFrames) > 0
             /\ Len(customSequences') = Len(customSequences) + 1
     /\ (lastOp = "saveSequence" /\ signals # {} /\ lastOp' = "saveSequence")
          => /\ customSequences' = customSequences
             /\ signals' = {}]_vars

\* a save was rejected with an empty buffer after two frames were recorded
\* and stored as one sequence
RepeatedSaveRejected ==
  /\ lastOp = "saveSequence"
  /\ signals = {}
  /\ sequenceFrames = <<>>
  /\ adds = 2
  /\ Len(customSequences) = 1
  /\ Len(customSequences[1].poses) = 2

\* ------------------------------------------------------------------------
\* Properties of the Robot component
\* ------------------------------------------------------------------------

MissingJointNoOp ==
  [][lastOp' = "solveJoint"
       => IF solved'[1] \in DOMAIN physicsState
          THEN \A j \in DOMAIN physicsState \ {solved'[1]} :
                 physicsState'[j] = physicsState[j]
          ELSE physicsState' = physicsState]_vars

SkippedAfterMove ==
  /\ lastOp = "solveJoint"
  /\ solved = Some("tail")
  /\ physicsState.lArm.rotation # <<0, 0, 0>>
  /\ physicsState.lArm.velocity # <<0, 0, 0>>

====
